---- MODULE Spec2Model ----
(***************************************************************************)
(* strong::alias<T,Name> (strong_alias.h).                                 *)
(*                                                                         *)
(* The header is a compile-time mechanism, so the model is a machine that  *)
(* holds two objects, a and b, and takes one C++ statement per step.  A    *)
(* step runs the compiler's part (name lookup, constraint checking,        *)
(* overload resolution, instantiation of the selected function's body)     *)
(* and, when the statement is well-formed, its run-time effect on a.       *)
(* `last` records the statement, how the compiler settled it and the value *)
(* it produced.                                                            *)
(*                                                                         *)
(* Alias types are the ones STRONG_ALIAS declares: a final struct NAME     *)
(* derived from strong::alias<T,NAME>, with the constructors inherited.    *)
(***************************************************************************)
EXTENDS Integers, FiniteSets, Sequences, TLC

\* largest int value that is enumerated; doubles are counted in halves, so
\* that 0.5 and 1.5 exist and double -> int truncates
MaxInt == 1
\* largest std::int8_t literal that is enumerated
MaxInt8 == 1
\* number of elements of the array the pointers point into: a pointer value
\* is 0 (null) or the position 1 .. Cells of an element
Cells == 2

---------------------------------------------------------------------------
(* Types                                                                   *)

\* std::is_scalar_v<T>: the arithmetic representation types of the model
ArithTypes == {"int8", "int", "double"}
IntegralTypes == {"int8", "int"}

\* std::is_pointer_v<T>: int* and V*, a pointer to a class
PointerTypes == {"intp", "Vp"}
Pointee == [intp |-> "int", Vp |-> "V"]
is_pointer_v(T) == T \in PointerTypes

\* the types of the literals 0 and nullptr: the null pointer constants.  The
\* literal 0 is an int everywhere else, and is an int once it has been bound
\* to a function parameter.
NullConstants == {"zero", "nullptr_t"}
ArithLike == ArithTypes \cup {"zero"}
IntegralLike == IntegralTypes \cup {"zero"}
Forwarded(ty) == IF ty = "zero" THEN "int" ELSE ty

\* Non-final class representation types.  V declares its operators as
\* members (as Eigen::Matrix does), W declares ==, != and += as non-member
\* functions (as std::vector and std::string declare ==).
ClassTypes == {"V", "W"}
\* a class declared final, and a union: neither scalar nor a class to derive from
FinalClassTypes == {"F"}
OtherTypes == {"union"}

is_scalar_v(T) == T \in ArithTypes \cup PointerTypes
is_class_v(T) == T \in ClassTypes \cup FinalClassTypes
is_final_v(T) == T \in FinalClassTypes

\* STRONG_ALIAS(NAME, T): struct NAME final : strong::alias<T,NAME>
Rep ==
    [A |-> "int", B |-> "int", M |-> "double", S |-> "double",
     X |-> "V", Y |-> "V", P |-> "W", Q |-> "W",
     D |-> "intp", C |-> "Vp"]

AliasTypes == DOMAIN Rep
\* the aliases over pointers, and the aliases of the fundamental and class
\* type matrix
PointerAliases == {N \in AliasTypes : is_pointer_v(Rep[N])}
MatrixAliases == AliasTypes \ PointerAliases
PlainTypes == ArithTypes \cup ClassTypes
Types == PlainTypes \cup MatrixAliases

\* which partial specialisation of alias<T,Name> the type T selects
Body(T) ==
    IF is_scalar_v(T) THEN "scalar"
    ELSE IF is_class_v(T) /\ ~is_final_v(T) THEN "class"
    ELSE "none"

ScalarAlias(ty) == ty \in AliasTypes /\ Body(Rep[ty]) = "scalar"
ClassAlias(ty) == ty \in AliasTypes /\ Body(Rep[ty]) = "class"
\* the two partial specialisations of alias<T, Name> and their constraints;
\* the primary template is declared and never defined
ScalarBodyEnabled(T) == is_scalar_v(T)

\* Variant of ClassBodyEnabled: a final class is taken as well
ClassBodyEnabledFinalToo(T) == is_class_v(T)

ClassBodyEnabled(T) == is_class_v(T) /\ ~is_final_v(T)

\* the specialisations whose constraints T satisfies
Bodies(T) ==
    {B \in {"scalar", "class"} :
        \/ B = "scalar" /\ ScalarBodyEnabled(T)
        \/ B = "class" /\ ClassBodyEnabled(T)}

\* STRONG_ALIAS(NAME, T): NAME derives from alias<T, NAME>, which must be
\* one complete specialisation
DefineAlias(T) ==
    IF Bodies(T) = {} THEN [outcome |-> "incomplete_type", sel |-> "none"]
    ELSE IF Cardinality(Bodies(T)) > 1
         THEN [outcome |-> "ambiguous", sel |-> "ambiguous"]
    ELSE [outcome |-> "ok", sel |-> CHOOSE B \in Bodies(T) : TRUE]

\* the class template specialisation the macro derives NAME from:
\* alias<T, NAME>, the type the alias's own operators are declared to return
BaseOf == [N \in AliasTypes |-> "alias<" \o N \o ">"]
BaseTypes == {BaseOf[N] : N \in AliasTypes}
\* Variant of IdentityBases: identity taken from the representation type
IdentityBasesByRep(Arg) ==
    IF Arg \in AliasTypes THEN {N \in AliasTypes : Rep[N] = Rep[Arg]} ELSE {}
\* the alias_name<N> markers that Arg (cv and reference stripped) derives from
IdentityBases(Arg) ==
    IF Arg \in AliasTypes THEN {Arg}
    ELSE {N \in AliasTypes : BaseOf[N] = Arg}

\* is_base_of<is_alias_t, Arg>: alias_name<N> derives from is_alias_t
is_alias(Arg) == IdentityBases(Arg) # {}
is_same_alias(Arg, Name) == is_alias(Arg) /\ Name \in IdentityBases(Arg)
is_different_alias(Arg, Name) == is_alias(Arg) /\ Name \notin IdentityBases(Arg)
\* an operand type as a template argument Arg: a type with its const,
\* volatile and reference qualification
CvQuals == {"", "const", "volatile", "const volatile"}
RefQuals == {"", "&", "&&"}
Qualified(base, cv, ref) == [base |-> base, cv |-> cv, ref |-> ref]

\* std::remove_cvref_t<T>
rm_cvref_t(q) == q.base

\* the classifications of the operand type q relative to Name that hold
Classification(q, Name) ==
    LET Arg == rm_cvref_t(q)
        S == {c \in {"not_an_alias", "same_alias", "different_alias"} :
                 \/ c = "not_an_alias" /\ ~is_alias(Arg)
                 \/ c = "same_alias" /\ is_same_alias(Arg, Name)
                 \/ c = "different_alias" /\ is_different_alias(Arg, Name)}
    IN  IF S = {} THEN "none"
        ELSE IF Cardinality(S) > 1 THEN "several"
        ELSE CHOOSE c \in S : TRUE

\* Variant of HasConversionToT: no conversion function
NoConversionToT(ty) == FALSE

\* operator T(): the conversion function of the scalar body
HasConversionToT(ty) == ScalarAlias(ty)

\* the type a scalar operand is read as: T itself, or T through operator T()
Under(ty) == IF ty \in AliasTypes THEN Rep[ty] ELSE ty
\* an operand that is, or converts by itself to, a scalar value
Scalarish(ty) ==
    ty \in ArithTypes \cup PointerTypes \cup NullConstants \/ HasConversionToT(ty)

---------------------------------------------------------------------------
(* Values.  An int or int8 value n is the number n; a double value h is    *)
(* the number h/2; a class value is its payload x.                         *)

MaxOf(T) ==
    IF T = "int8" THEN MaxInt8
    ELSE IF T = "double" THEN 2 * MaxInt
    ELSE IF T \in PointerTypes THEN Cells
    ELSE IF T \in NullConstants THEN 0
    ELSE MaxInt

Values(T) == 0 .. MaxOf(T)

Obj(ty, v) == [ty |-> ty, val |-> v]
NoObj == Obj("void", 0)
Bool(p) == Obj("bool", IF p THEN 1 ELSE 0)

\* standard conversion of the value v of scalar type U to scalar type T
ConvertValue(U, T, v) ==
    IF (U = "double") = (T = "double") THEN v
    ELSE IF T = "double" THEN 2 * v
    ELSE v \div 2

\* a conversion that list-initialisation { } rejects as narrowing when the
\* source is not a constant expression (a forwarded constructor argument
\* never is)
Narrowing(U, T) ==
    /\ U \in ArithTypes
    /\ T \in ArithTypes
    /\ ~(U = T \/ (U = "int8" /\ T = "int"))

\* A narrowing conversion in value{ ... } is ill-formed; g++ diagnoses it
\* with a warning and goes on with the truncated value, other compilers
\* reject it.  Both are outcomes of a build.
NarrowingBuilds == {"rejects", "accepts"}

\* initialising the alias type ty from a value of type src narrows
NarrowingPossible(ty, src) ==
    ScalarAlias(ty) /\ Scalarish(src) /\ Narrowing(Under(src), Rep[ty])

---------------------------------------------------------------------------
(* Implicit conversion sequences, ranked as overload resolution ranks      *)
(* them: a lower number is a better sequence.  Binding to the direct base  *)
(* alias<T,N> is better than binding to its base T.                        *)

Rank ==
    [identity |-> 0, promotion |-> 10, conversion |-> 20,
     to_alias |-> 21, to_T |-> 22, user |-> 30, none |-> 99]

\* Variant of VariadicCtorEnabled: the constructor from aliases constrained
\* to the alias's own identity
VariadicCtorSameOnly(N, Arg) == is_same_alias(Arg, N)

\* alias(Args&&...), explicit: the scalar body requires every argument to
\* be an alias, the class body accepts anything
VariadicCtorEnabled(N, Arg) ==
    IF Body(Rep[N]) = "scalar" THEN is_alias(Arg) ELSE TRUE

\* Variant of SingleCtorEnabled: the converting constructor unconstrained
SingleCtorAny(N, Arg) == TRUE

\* alias(Arg&&), not explicit: a converting constructor
SingleCtorEnabled(N, Arg) ==
    IF Body(Rep[N]) = "scalar" THEN ~is_alias(Arg)
    ELSE ~is_alias(Arg) \/ is_same_alias(Arg, N)

\* Variants of the two explicit specifiers: each one flipped
VariadicCtorImplicit == FALSE
SingleCtorExplicitYes == TRUE

\* whether alias(Args&&...) is declared explicit
VariadicCtorExplicit == TRUE
\* whether alias(Arg&&) is declared explicit
SingleCtorExplicit == FALSE

\* the standard conversion sequence from the scalar type U to the scalar
\* type T: among the arithmetic types, and from a null pointer constant to
\* a pointer
StdRank(U, T) ==
    IF U = T \/ (U = "zero" /\ T = "int") THEN Rank.identity
    ELSE IF U \in ArithLike /\ T \in ArithTypes
        THEN IF U = "int8" /\ T = "int" THEN Rank.promotion ELSE Rank.conversion
    ELSE IF U \in NullConstants /\ T \in PointerTypes THEN Rank.conversion
    ELSE Rank.none

\* the implicit conversion sequence that copy-initialises a `to` from an
\* expression of type `from`; at most one user-defined conversion
ConvRank(from, to) ==
    IF StdRank(from, to) # Rank.none THEN StdRank(from, to)
    ELSE IF HasConversionToT(from) /\ StdRank(Rep[from], to) # Rank.none THEN Rank.user
    ELSE IF ClassAlias(from) /\ to = Rep[from] THEN Rank.to_T
    ELSE IF to \in AliasTypes /\ ~SingleCtorExplicit /\ SingleCtorEnabled(to, from)
        THEN Rank.user
    ELSE Rank.none

\* `from` is `to` or a class derived from it: a reference to `to` binds
\* directly to a `from`
RefCompatible(from, to) == from = to \/ (ClassAlias(from) /\ to = Rep[from])

\* c is a better candidate than d: no worse in any argument and better in
\* one; on a tie a non-template beats a template, and of two templates the
\* one without a trailing parameter pack is the more specialised
Better(c, d) ==
    /\ c.r1 <= d.r1
    /\ c.r2 <= d.r2
    /\ \/ c.r1 < d.r1
       \/ c.r2 < d.r2
       \/ ~c.tmpl /\ d.tmpl
       \/ c.tmpl /\ d.tmpl /\ ~c.pack /\ d.pack

Cand(fn, r1, r2, tmpl, pack) ==
    [fn |-> fn, r1 |-> r1, r2 |-> r2, tmpl |-> tmpl, pack |-> pack]

\* the best viable function of a candidate set, or why there is none
Select(cands) ==
    LET best == {c \in cands : \A d \in cands \ {c} : Better(c, d)}
    IN  IF cands = {} THEN "no_match"
        ELSE IF best = {} THEN "ambiguous"
        ELSE (CHOOSE c \in best : TRUE).fn

---------------------------------------------------------------------------
(* Construction of an alias N from one argument of type `from`             *)

\* the constructors of N that take part: form is "direct" for N n(v) and
\* N n{v}, "copy" for N n = v and for passing v to a parameter of type N.
\* An inherited constructor whose parameter is a reference to N or to its base is
\* not a candidate; N's own copy constructor serves that case.
CtorCandidates(N, from, form) ==
    (IF from \notin {N, BaseOf[N]} /\ VariadicCtorEnabled(N, from)
        /\ (form = "direct" \/ ~VariadicCtorExplicit)
     THEN {Cand("ctor_variadic", Rank.identity, Rank.identity, TRUE, TRUE)} ELSE {})
    \cup
    (IF from \notin {N, BaseOf[N]} /\ SingleCtorEnabled(N, from)
        /\ (form = "direct" \/ ~SingleCtorExplicit)
     THEN {Cand("ctor_single", Rank.identity, Rank.identity, TRUE, FALSE)} ELSE {})
    \cup
    (IF from = N
     THEN {Cand("copy_ctor", Rank.identity, Rank.identity, FALSE, FALSE)} ELSE {})

\* Variant of ScalarCtorBody: value{} , the argument dropped
ScalarCtorBodyZero(T, src, build) ==
    IF ~Scalarish(src.ty) \/ StdRank(Under(Forwarded(src.ty)), T) = Rank.none
    THEN [outcome |-> "hard_error", val |-> 0]
    ELSE [outcome |-> "ok", val |-> 0]

\* value{ std::forward<Arg>(arg) } of the scalar body: list-initialisation
\* of the owned T from the argument
ScalarCtorBody(T, src, build) ==
    LET U == Under(Forwarded(src.ty))
    IN  IF ~Scalarish(src.ty) \/ StdRank(U, T) = Rank.none
        THEN [outcome |-> "hard_error", val |-> 0]
        ELSE IF Narrowing(U, T) /\ build = "rejects"
            THEN [outcome |-> "hard_error", val |-> 0]
        ELSE [outcome |-> "ok", val |-> ConvertValue(U, T, src.val)]

\* T(std::forward<Arg>(arg)) of the class body: T's copy constructor, which
\* accepts a T and anything derived from T
ClassCtorBody(T, src) ==
    IF RefCompatible(src.ty, T)
    THEN [outcome |-> "ok", val |-> src.val]
    ELSE [outcome |-> "hard_error", val |-> 0]

\* N n(src) / N n = src: the constructor overload resolution selects, then
\* the instantiation of its body
Construct(N, src, form, build) ==
    LET sel == Select(CtorCandidates(N, src.ty, form))
        body == IF sel = "copy_ctor" THEN [outcome |-> "ok", val |-> src.val]
                ELSE IF Body(Rep[N]) = "scalar" THEN ScalarCtorBody(Rep[N], src, build)
                ELSE ClassCtorBody(Rep[N], src)
    IN  IF sel \in {"no_match", "ambiguous"}
        THEN [outcome |-> sel, sel |-> "none", res |-> NoObj]
        ELSE [outcome |-> body.outcome, sel |-> sel,
              res |-> IF body.outcome = "ok" THEN Obj(N, body.val) ELSE NoObj]

\* copy-initialisation of a plain T from src: a standard conversion,
\* operator T(), or the copy of the T base sub-object
ToPlain(T, src) ==
    IF ConvRank(src.ty, T) = Rank.none
    THEN [outcome |-> "no_match", sel |-> "none", res |-> NoObj]
    ELSE [outcome |-> "ok",
          sel |-> IF src.ty = T THEN "copy"
                  ELSE IF HasConversionToT(src.ty) THEN "operator_T"
                  ELSE IF src.ty \in AliasTypes THEN "base"
                  ELSE "standard",
          res |-> Obj(T, IF T \in ArithTypes
                         THEN ConvertValue(Under(src.ty), T, src.val)
                         ELSE src.val)]

\* initialisation of an object of type ty from src
Initialise(ty, src, form, build) ==
    IF ty \in AliasTypes THEN Construct(ty, src, form, build) ELSE ToPlain(ty, src)

---------------------------------------------------------------------------
(* The exception specification of the constructors                         *)

\* what a forwarding reference Arg&& deduces Arg to: U& for an lvalue
\* argument of type U, plain U for an rvalue
ArgCategories == {"lvalue", "xvalue", "prvalue"}
DeducedArg(U, cat) == Qualified(U, "", IF cat = "lvalue" THEN "&" ELSE "")
is_lvalue_reference_v(q) == q.ref = "&"
is_rvalue_reference_v(q) == q.ref = "&&"

\* noexcept((is_lvalue_reference_v<Arg> and is_nothrow_copy_constructible_v<T>)
\*       or (is_rvalue_reference_v<Arg> and is_nothrow_move_constructible_v<T>))
CtorNoexcept(q, ncopy, nmove) ==
    \/ is_lvalue_reference_v(q) /\ ncopy
    \/ is_rvalue_reference_v(q) /\ nmove

\* noexcept(N(arg)) for the constructor sel that the construction selects;
\* the implicit copy and move constructors of N copy and move the T
NoexceptOf(sel, U, cat, ncopy, nmove) ==
    IF sel = "copy_ctor" THEN (IF cat = "lvalue" THEN ncopy ELSE nmove)
    ELSE CtorNoexcept(DeducedArg(U, cat), ncopy, nmove)

---------------------------------------------------------------------------(* Operators                                                               *)

AssignOps == {"=", "+=", "-=", "*=", "/=", "%=", "&=", "|=", "^=", "<<=", ">>="}
CompoundOps == AssignOps \ {"="}
CmpOps == {"==", "!=", ">=", "<=", ">", "<"}
LogicOps == {"&&", "||"}
\* binary arithmetic: no alias body declares it
ArithOps == {"+"}
BinaryOps == AssignOps \cup CmpOps \cup LogicOps \cup ArithOps

\* the operators a class T declares as members, and as non-member functions
MemberOps(T) ==
    IF T = "V" THEN {"=", "+=", "==", "!=", "+"}
    ELSE IF T = "W" THEN {"="}
    ELSE {}
FreeOps(T) == IF T = "W" THEN {"==", "!=", "+="} ELSE {}
SupportedOps(T) == MemberOps(T) \cup FreeOps(T)

\* the arithmetic operator of a compound assignment
BaseOp(op) ==
    CASE op = "+=" -> "+" [] op = "-=" -> "-" [] op = "*=" -> "*"
      [] op = "/=" -> "/" [] op = "%=" -> "%" [] op = "&=" -> "&"
      [] op = "|=" -> "|" [] op = "^=" -> "^" [] op = "<<=" -> "<<"
      [] op = ">>=" -> ">>" [] OTHER -> op

IntegralOnly == {"%", "&", "|", "^", "<<", ">>"}

\* the built-in operator exists for operands of the scalar types U1, U2
BuiltinOK(op, U1, U2) ==
    IF U1 \in PointerTypes
    THEN CASE op \in {"=", "==", "!="} -> U2 = U1 \/ U2 \in NullConstants
           [] op \in {">=", "<=", ">", "<"} -> U2 = U1
           [] op \in LogicOps -> U2 \in ArithLike \cup PointerTypes \cup NullConstants
           [] op \in {"+=", "-=", "+"} -> U2 \in IntegralLike
           [] op = "[]" -> U2 \in IntegralLike
           [] OTHER -> FALSE
    ELSE IF U2 \in PointerTypes \cup {"nullptr_t"}
    THEN /\ U1 \in ArithLike
         /\ \/ op \in LogicOps
            \/ op \in {"+", "[]"} /\ U1 \in IntegralLike /\ U2 \in PointerTypes
    ELSE /\ U1 \in ArithLike
         /\ U2 \in ArithLike
         /\ op # "[]"
         /\ BaseOp(op) \in IntegralOnly => U1 \in IntegralLike /\ U2 \in IntegralLike

\* the type both operands are brought to: the pointer type of pointer
\* arithmetic and of a pointer comparison, else the type of the usual
\* arithmetic conversions
Common(U1, U2) ==
    IF U1 \in PointerTypes THEN U1
    ELSE IF U2 \in PointerTypes THEN U2
    ELSE IF "double" \in {U1, U2} THEN "double"
    ELSE "int"

RECURSIVE BitOp(_, _, _)
BitOp(op, x, y) ==
    IF x = 0 /\ y = 0 THEN 0
    ELSE LET bx == x % 2
             by == y % 2
             bit == CASE op = "&" -> bx * by
                      [] op = "|" -> (bx + by + 1) \div 2
                      [] OTHER -> (bx + by) % 2
         IN  bit + 2 * BitOp(op, x \div 2, y \div 2)

\* the built-in x op y has a result the model can hold (no division by
\* zero, an exact quotient or product of doubles)
ArithDefined(op, c, x, y) ==
    CASE op \in {"/", "%"} -> y # 0 /\ (c = "double" => (2 * x) % y = 0)
      [] op = "*" -> c = "double" => (x * y) % 2 = 0
      [] OTHER -> TRUE

\* the built-in x op y on two values of the common type c
ArithValue(op, c, x, y) ==
    CASE op = "+" -> x + y
      [] op = "-" -> x - y
      [] op = "*" -> IF c = "double" THEN (x * y) \div 2 ELSE x * y
      [] op = "/" -> IF y = 0 THEN 0
                     ELSE IF c = "double" THEN (2 * x) \div y ELSE x \div y
      [] op = "%" -> IF y = 0 THEN 0 ELSE x % y
      [] op = "<<" -> x * 2 ^ y
      [] op = ">>" -> x \div 2 ^ y
      [] OTHER -> BitOp(op, x, y)

\* the built-in comparison or logical operator on two values of one type
CmpValue(op, x, y) ==
    CASE op = "==" -> x = y
      [] op = "!=" -> x # y
      [] op = ">=" -> x >= y
      [] op = "<=" -> x <= y
      [] op = ">" -> x > y
      [] op = "<" -> x < y
      [] op = "&&" -> x # 0 /\ y # 0
      [] OTHER -> x # 0 \/ y # 0

\* T's own x op y, with x of type T and y of type U
BuiltinBinary(op, T, x, U, y) ==
    LET c == Common(T, U)
        cx == ConvertValue(T, c, x)
        cy == ConvertValue(U, c, y)
    IN  IF op \in CmpOps \cup LogicOps THEN Bool(CmpValue(op, cx, cy))
        ELSE Obj(c, ArithValue(op, c, cx, cy))

\* T's own x op= y: the new value of x
BuiltinAssign(op, T, x, U, y) ==
    IF op = "=" THEN ConvertValue(U, T, y)
    ELSE ConvertValue(Common(T, U), T, BuiltinBinary(BaseOp(op), T, x, U, y).val)

BuiltinDefined(op, T, x, U, y) ==
    LET c == Common(T, U)
    IN  /\ ArithDefined(BaseOp(op), c, ConvertValue(T, c, x), ConvertValue(U, c, y))
        /\ (T \in PointerTypes /\ BaseOp(op) \in {"+", "-"}) =>
               x # 0 /\ ArithValue(BaseOp(op), c, x, y) \in 1 .. Cells
        /\ (T \in PointerTypes /\ op \in {">=", "<=", ">", "<"}) => x # 0 /\ y # 0
        /\ op \in ArithOps =>
               BuiltinBinary(op, T, x, U, y).val \in Values(c)
        /\ op \in AssignOps =>
               /\ BuiltinAssign(op, T, x, U, y) \in Values(T)
               /\ op # "=" => BuiltinBinary(BaseOp(op), T, x, U, y).val \in Values(c)

\* a class T's own operators, on the payloads
ClassBinary(op, T, x, y) ==
    IF op \in CmpOps THEN Bool(CmpValue(op, x, y))
    ELSE IF op = "=" THEN Obj(T, y)
    ELSE Obj(T, x + y)

---------------------------------------------------------------------------
(* Overload resolution of  a op b                                          *)

\* the operators both alias bodies declare themselves
DeclaredOps == AssignOps \cup CmpOps \cup LogicOps

\* Variant of AssignEnabled: the constraint left out
AssignEnabledAny(Arg, Name) == TRUE

\* Variant of DeletedEnabled: the deleted operators constrained to the
\* alias's own identity
DeletedEnabledSame(Arg, Name) == is_same_alias(Arg, Name)

\* requires(not is_alias<Arg> or is_same_alias<Arg,Name>): the assignment
\* operators of both bodies, the comparison and logical operators of the
\* class body
AssignEnabled(Arg, Name) == ~is_alias(Arg) \/ is_same_alias(Arg, Name)

\* requires is_different_alias<Arg,Name>: the deleted comparison and
\* logical operators of the scalar body
DeletedEnabled(Arg, Name) == is_different_alias(Arg, Name)
\* array types, which std::decay_t turns into pointers and
\* std::remove_cvref_t leaves alone
ArrayOf(ty) == ty \o "[]"
PointerTo(ty) == ty \o "*"
ArrayShapes == {"", "[]"}
Shaped(ty, shape) == IF shape = "[]" THEN ArrayOf(ty) ELSE ty

\* std::decay_t<Arg>: reference removed, an array turned into a pointer to
\* its element, otherwise const and volatile removed
decay_t(q) ==
    IF \E ty \in AliasTypes \cup PlainTypes \cup PointerTypes : q.base = ArrayOf(ty)
    THEN PointerTo(CHOOSE ty \in AliasTypes \cup PlainTypes \cup PointerTypes :
                       q.base = ArrayOf(ty))
    ELSE q.base

\* the oldest variant: alias<T, Name> derives from the two unrelated markers
\* is_alias and alias_name<Name>
DerivesIsAlias_000(Arg) == Arg \in AliasTypes \cup BaseTypes
is_alias_v_000(q) == DerivesIsAlias_000(decay_t(q))
is_different_alias_v_000(q, Name) ==
    is_alias_v_000(q) /\ Name \notin IdentityBases(decay_t(q))

\* Variant of AssignEnabled_000: only a non-alias operand accepted
AssignEnabledNonAlias_000(q, Name) == ~is_alias_v_000(q)

\* enable_if_t<!is_different_alias_v<Arg>> of the assignment operators and
\* enable_if_t<is_different_alias_v<Arg>> of the deleted ones
AssignEnabled_000(q, Name) == ~is_different_alias_v_000(q, Name)
DeletedEnabled_000(q, Name) == is_different_alias_v_000(q, Name)

\* the middle variant: the concepts of the current header over std::decay_t
AssignEnabled_001(q, Name) ==
    ~is_alias(decay_t(q)) \/ is_same_alias(decay_t(q), Name)
DeletedEnabled_001(q, Name) == is_different_alias(decay_t(q), Name)

\* what the three variants decide for an operand of type q on an alias of
\* identity Name: whether assignment is enabled, whether comparison is deleted
Policy(q, Name) ==
    [v000 |-> <<AssignEnabled_000(q, Name), DeletedEnabled_000(q, Name)>>,
     v001 |-> <<AssignEnabled_001(q, Name), DeletedEnabled_001(q, Name)>>,
     cur |-> <<AssignEnabled(rm_cvref_t(q), Name), DeletedEnabled(rm_cvref_t(q), Name)>>]

\* struct NAME declares no operator=, so its implicit copy and move
\* assignment operators hide alias::operator=; they take whatever converts
\* implicitly to NAME
ImplicitAssignCands(lt, rt) ==
    IF ConvRank(rt, lt) # Rank.none
    THEN {Cand("copy_assign", Rank.identity, ConvRank(rt, lt), FALSE, FALSE)}
    ELSE {}

\* the member operators of the scalar body
ScalarMemberCands(lt, op, rt) ==
    IF op \in CmpOps \cup LogicOps
    THEN IF DeletedEnabled(rt, lt)
         THEN {Cand("alias_deleted", Rank.to_alias, Rank.identity, TRUE, FALSE)}
         ELSE {}
    ELSE IF op \in CompoundOps /\ AssignEnabled(rt, lt)
    THEN {Cand("alias_member", Rank.to_alias, Rank.identity, TRUE, FALSE)}
    ELSE {}

\* the member operators of a class T, found in an object of type lt
TMemberCands(T, lt, op, rt) ==
    IF op \in MemberOps(T) /\ ConvRank(rt, T) # Rank.none
    THEN {Cand("T_member", ConvRank(lt, T), ConvRank(rt, T), FALSE, FALSE)}
    ELSE {}

\* the member operators of the class body; a name the body declares hides
\* T's members of that name, any other operator of T is inherited
ClassMemberCands(lt, op, rt) ==
    IF op \in DeclaredOps
    THEN IF AssignEnabled(rt, lt)
         THEN {Cand("alias_member", Rank.to_alias, Rank.identity, TRUE, FALSE)}
         ELSE {}
    ELSE TMemberCands(Rep[lt], lt, op, rt)

MemberCands(lt, op, rt) ==
    IF lt \in AliasTypes
    THEN IF op = "=" THEN ImplicitAssignCands(lt, rt)
         ELSE IF ScalarAlias(lt) THEN ScalarMemberCands(lt, op, rt)
         ELSE ClassMemberCands(lt, op, rt)
    ELSE IF lt \in ClassTypes THEN TMemberCands(lt, lt, op, rt)
    ELSE {}

\* the non-member operators of the classes the operands are made of: the
\* left operand binds by reference, the right one converts
FreeCands(lt, op, rt) ==
    {Cand("T_free", ConvRank(lt, C), ConvRank(rt, C), FALSE, FALSE) :
        C \in {D \in ClassTypes : /\ op \in FreeOps(D)
                                   /\ RefCompatible(lt, D)
                                   /\ ConvRank(rt, D) # Rank.none}}

\* the built-in candidates: an assignment needs a plain lvalue on the left,
\* any other operator takes both operands through their conversion to T
BuiltinCands(lt, op, rt) ==
    IF op \in AssignOps
    THEN IF is_scalar_v(lt) /\ Scalarish(rt) /\ BuiltinOK(op, lt, Under(rt))
         THEN {Cand("builtin", Rank.identity, ConvRank(rt, Under(rt)), FALSE, FALSE)}
         ELSE {}
    ELSE IF Scalarish(lt) /\ Scalarish(rt) /\ BuiltinOK(op, Under(lt), Under(rt))
         THEN {Cand("builtin", ConvRank(lt, Under(lt)), ConvRank(rt, Under(rt)),
                    FALSE, FALSE)}
         ELSE {}

Candidates(lt, op, rt) ==
    MemberCands(lt, op, rt) \cup FreeCands(lt, op, rt) \cup BuiltinCands(lt, op, rt)

\* value op= arg  (scalar body)  /  T::operator op(arg)  (class body): the
\* body of the alias's own operator, instantiated once it is selected
MemberBodyOK(lt, op, rt) ==
    IF ScalarAlias(lt)
    THEN Scalarish(rt) /\ BuiltinOK(op, Rep[lt], Under(Forwarded(rt)))
    ELSE op \in MemberOps(Rep[lt]) /\ ConvRank(rt, Rep[lt]) # Rank.none

\* a op b: what the compiler makes of it and, when it is well-formed, the
\* value of the expression and the new value of a
Binary(a, op, b, build) ==
    LET lt == a.ty
        rt == b.ty
        sel == Select(Candidates(lt, op, rt))
        bad(o) == [outcome |-> o, sel |-> sel, res |-> NoObj, a |-> a, defined |-> TRUE]
        good(r, na, d) == [outcome |-> "ok", sel |-> sel, res |-> r, a |-> na, defined |-> d]
    IN  CASE sel \in {"no_match", "ambiguous"} ->
               [outcome |-> sel, sel |-> "none", res |-> NoObj, a |-> a, defined |-> TRUE]
          [] sel = "alias_deleted" -> bad("deleted")
          [] sel = "copy_assign" ->
               LET c == Initialise(lt, b, "copy", build)
               IN  IF c.outcome = "ok" THEN good(c.res, c.res, TRUE) ELSE bad(c.outcome)
          [] sel = "alias_member" /\ ~MemberBodyOK(lt, op, rt) -> bad("hard_error")
          [] sel = "alias_member" /\ ClassAlias(lt) ->
               LET r == ClassBinary(op, Rep[lt], a.val, b.val)
               IN  IF op \in AssignOps
                   THEN good(Obj(lt, r.val), Obj(lt, r.val), r.val \in Values(Rep[lt]))
                   ELSE good(r, a, TRUE)
          [] sel = "alias_member" ->
               LET v == BuiltinAssign(op, Rep[lt], a.val, Under(rt), b.val)
               IN  good(Obj(lt, v), Obj(lt, v),
                        BuiltinDefined(op, Rep[lt], a.val, Under(rt), b.val))
          [] sel = "builtin" /\ op \in AssignOps ->
               LET v == BuiltinAssign(op, lt, a.val, Under(rt), b.val)
               IN  good(Obj(lt, v), Obj(lt, v),
                        BuiltinDefined(op, lt, a.val, Under(rt), b.val))
          [] sel = "builtin" ->
               good(BuiltinBinary(op, Under(lt), a.val, Under(rt), b.val), a,
                    BuiltinDefined(op, Under(lt), a.val, Under(rt), b.val))
          [] OTHER ->
               LET r == ClassBinary(op, Under(lt), a.val, b.val)
               IN  IF op \in AssignOps
                   THEN good(Obj(lt, r.val), Obj(lt, r.val), r.val \in Values(Under(lt)))
                   ELSE good(r, a, r.val \in Values(Under(lt)) \/ r.ty = "bool")

---------------------------------------------------------------------------
(* Dereference, subscript and member access                                *)

AccessForms == {"*", "[]", "->", "(*).", ".operator->()"}

\* operator*() requires std::is_pointer_v<T>
DerefEnabled(T) == is_pointer_v(T)

\* Variant of ArrowEnabled: the pointee left out of the constraint
ArrowEnabledAnyPointer(T) == is_pointer_v(T)

\* operator->() requires std::is_pointer_v<T> and that the pointee is a class
ArrowEnabled(T) == is_pointer_v(T) /\ is_class_v(Pointee[T])

\* the candidates for  *e  with e of type ty: the alias's operator*, and the
\* built-in operator on a pointer or on what converts to one
DerefCands(ty) ==
    (IF ScalarAlias(ty) /\ DerefEnabled(Rep[ty])
     THEN {Cand("alias_member", Rank.to_alias, Rank.identity, FALSE, FALSE)} ELSE {})
    \cup
    (IF Scalarish(ty) /\ Under(ty) \in PointerTypes
     THEN {Cand("builtin", ConvRank(ty, Under(ty)), Rank.identity, FALSE, FALSE)} ELSE {})

\* the candidates for  e[i]: no alias body declares operator[], so only the
\* built-in subscript on what converts to a pointer
SubscriptCands(ty) ==
    IF Scalarish(ty) /\ BuiltinOK("[]", Under(ty), "int")
    THEN {Cand("builtin", ConvRank(ty, Under(ty)), Rank.identity, FALSE, FALSE)} ELSE {}

\* the candidates for  e->m  and  e.operator->(): the alias's operator->;
\* the built-in -> only takes a pointer to a class, with no conversion
ArrowCands(ty, how) ==
    (IF ScalarAlias(ty) /\ ArrowEnabled(Rep[ty])
     THEN {Cand("alias_member", Rank.to_alias, Rank.identity, FALSE, FALSE)} ELSE {})
    \cup
    (IF how = "->" /\ ty \in PointerTypes /\ is_class_v(Pointee[ty])
     THEN {Cand("builtin", Rank.identity, Rank.identity, FALSE, FALSE)} ELSE {})

\* Variant of DerefTarget: the first element whatever the pointer holds
DerefTargetFirst(p) == 1

\* return *value;  the element the held pointer value p designates
DerefTarget(p) == p

\* the statement  *e = v,  e[i] = v,  e->set(v),  (*e).set(v)  or
\* e.operator->()  on the array m: how the compiler settles it, and the
\* array after it
Access(e, how, i, v, m) ==
    LET sel == Select(CASE how = "*" -> DerefCands(e.ty)
                        [] how = "(*)." -> DerefCands(e.ty)
                        [] how = "[]" -> SubscriptCands(e.ty)
                        [] OTHER -> ArrowCands(e.ty, how))
        cell == DerefTarget(e.val) + i
        bad(o) == [outcome |-> o, sel |-> "none", res |-> NoObj, mem |-> m,
                   defined |-> TRUE]
    IN  IF sel \in {"no_match", "ambiguous"} THEN bad(sel)
        ELSE IF how = "(*)." /\ ~is_class_v(Pointee[Under(e.ty)]) THEN bad("no_match")
        ELSE IF how = ".operator->()"
        THEN [outcome |-> "ok", sel |-> sel, res |-> Obj(Under(e.ty), e.val),
              mem |-> m, defined |-> TRUE]
        ELSE [outcome |-> "ok", sel |-> sel,
              res |-> Obj(Pointee[Under(e.ty)], v),
              mem |-> IF cell \in 1 .. Cells THEN [m EXCEPT ![cell] = v] ELSE m,
              defined |-> e.val \in 1 .. Cells /\ cell \in 1 .. Cells]

\* return *this;  of the alias's assignment operators and of NAME's implicit
\* copy assignment: the value of the expression is the left operand itself
ReturnsSelf(sel, op) == op \in AssignOps /\ sel \in {"alias_member", "copy_assign"}

\* Variant of Written: a body that stores into its argument as well
WrittenBoth(sel, op) ==
    IF sel \in {"none", "alias_deleted"} THEN {} ELSE {"this", "arg"}

\* the operands that the function selected for an operator or for an
\* initialisation stores into.  { value op= arg; return *this; } stores into
\* the member of *this and reads arg, a const Arg&, through
\* operator T() const { return value; }; NAME's implicit copy assignment
\* and the built-in assignment store into their left operand; a comparison
\* acts on the copies that operator T() returns; a constructor reads its
\* argument into the new object
Written(sel, op) ==
    IF op \in AssignOps /\ sel \notin {"none", "alias_deleted"} THEN {"this"} ELSE {}

\* the object that the store of  *e = v,  e[i] = v  and  e->set(v)  goes
\* to: operator*() returns *value and operator->() returns value by copy,
\* so the store goes to the pointee; e.operator->() alone stores nothing
StoreTarget(how) == IF how = ".operator->()" THEN "none" ELSE "pointee"
---------------------------------------------------------------------------
(* Increment and decrement                                                 *)

StepForms == {"++pre", "--pre", "++post", "--post"}
Postfix(form) == form \in {"++post", "--post"}
\* the prefix operator of the same direction
PrefixOf(form) == IF form \in {"++pre", "++post"} THEN "++pre" ELSE "--pre"
\* the compound assignment of one that a step amounts to
StepOp(form) == IF form \in {"++pre", "++post"} THEN "+=" ELSE "-="

\* the forms a class T declares as members and as friends
StepMembers(T) == IF T = "V" THEN {"++pre", "++post", "--pre"} ELSE {}
StepFriends(T) == IF T = "W" THEN {"++post"} ELSE {}

\* requires(T& a) { ++a; } and its three siblings
TSupportsStep(T, form) ==
    is_scalar_v(T) \/ form \in StepMembers(T) \cup StepFriends(T)

\* the requires-clause of the alias's operator++ / operator--
StepEnabled(T, form) == TSupportsStep(T, form)





\* the body of the selected operator is well-formed: { ++value; } and
\* { return alias{value++}; } in the scalar body, ++static_cast<T&>(*this)
\* and { alias tmp{*this}; ++(*this); return tmp; } in the class body
StepBodyOK(N, form) ==
    IF Body(Rep[N]) = "scalar" THEN TSupportsStep(Rep[N], form)
    ELSE IF Postfix(form) THEN StepEnabled(Rep[N], PrefixOf(form))
    ELSE TSupportsStep(Rep[N], form)

\* the candidates of ++e, e++: the alias's member, hiding T's members, and
\* the friends of T found through the base class
StepCands(ty, form) ==
    (IF ty \in AliasTypes /\ StepEnabled(Rep[ty], form)
     THEN {Cand("alias_member", Rank.identity, Rank.identity, FALSE, FALSE)} ELSE {})
    \cup
    (IF ClassAlias(ty) /\ form \in StepFriends(Rep[ty])
     THEN {Cand("T_free", Rank.to_T, Rank.identity, FALSE, FALSE)} ELSE {})
    \cup
    (IF ty \notin AliasTypes /\ TSupportsStep(ty, form)
     THEN {Cand(IF is_scalar_v(ty) THEN "builtin" ELSE "T_member",
                Rank.identity, Rank.identity, FALSE, FALSE)} ELSE {})

\* the stepped value, and whether the model can hold it
StepValue(T, x, form) ==
    IF is_scalar_v(T) THEN BuiltinAssign(StepOp(form), T, x, "int", 1)
    ELSE IF StepOp(form) = "+=" THEN x + 1 ELSE x - 1
StepDefined(T, x, form) ==
    IF is_scalar_v(T) THEN BuiltinDefined(StepOp(form), T, x, "int", 1)
    ELSE StepValue(T, x, form) \in Values(T)

\* Variant of AliasStepBody: the held value left as it is
AliasStepBodySkip(N, x, form) == x

\* { ++value; return *this; }, { return alias{value++}; } and their class
\* body counterparts: the alias's operator applies T's to what it holds
AliasStepBody(N, x, form) == StepValue(Rep[N], x, form)
\* ++e, --e, e++, e--: a is the operand afterwards, res the value of the
\* expression, self whether that value is the operand itself
Unary(e, form) ==
    LET sel == Select(StepCands(e.ty, form))
        T == Under(e.ty)
        na == Obj(e.ty, IF sel = "alias_member"
                        THEN AliasStepBody(e.ty, e.val, form)
                        ELSE StepValue(T, e.val, form))
    IN  IF sel \in {"no_match", "ambiguous"}
        THEN [outcome |-> sel, sel |-> "none", res |-> NoObj, a |-> e,
              self |-> FALSE, defined |-> TRUE]
        ELSE IF sel = "alias_member" /\ ~StepBodyOK(e.ty, form)
        THEN [outcome |-> "hard_error", sel |-> sel, res |-> NoObj, a |-> e,
              self |-> FALSE, defined |-> TRUE]
        ELSE [outcome |-> "ok", sel |-> sel,
              res |-> IF ~Postfix(form) THEN na
                      ELSE IF sel = "alias_member" THEN Obj(BaseOf[e.ty], e.val)
                      ELSE Obj(T, e.val),
              a |-> na, self |-> ~Postfix(form),
              defined |-> StepDefined(T, e.val, form)]

---------------------------------------------------------------------------
(* Passing a to a function parameter                                       *)

ParamForms == {"val", "lref", "clref", "rref"}
ValueCategories == {"lvalue", "xvalue"}

\* f(a) or f(std::move(a)) for a parameter PT, PT&, const PT& or PT&&
PassArg(PT, form, cat, a, build) ==
    LET direct == [outcome |-> "ok", sel |-> "bind", res |-> Obj(PT, a.val)]
        reject == [outcome |-> "no_match", sel |-> "none", res |-> NoObj]
    IN  CASE form = "val" -> Initialise(PT, a, "copy", build)
          [] form = "lref" ->
               IF cat = "lvalue" /\ RefCompatible(a.ty, PT) THEN direct ELSE reject
          [] form = "clref" ->
               IF RefCompatible(a.ty, PT) THEN direct
               ELSE Initialise(PT, a, "copy", build)
          [] OTHER ->
               IF RefCompatible(a.ty, PT)
               THEN IF cat = "xvalue" THEN direct ELSE reject
               ELSE Initialise(PT, a, "copy", build)

---------------------------------------------------------------------------
(* The machine                                                             *)

VARIABLES
    a,      \* the left operand: [ty, val]
    b,      \* the right operand: [ty, val]
    last,   \* the last statement and what became of it
    t,      \* a plain T object that is taken through the statements of a
    mem     \* the array x[1 .. Cells] of ints that the pointers point into

vars == <<a, b, last, t, mem>>

InitForms == {"direct", "copy"}

Stmt(kind, op, ty, cat, src, r) ==
    [kind |-> kind, op |-> op, ty |-> ty, cat |-> cat, src |-> src,
     outcome |-> r.outcome, sel |-> r.sel, res |-> r.res]

\* no statement is being taken
Idle ==
    Stmt("none", "none", "void", "lvalue", NoObj,
         [outcome |-> "ok", sel |-> "none", res |-> NoObj])

\* Ty a; Ty b;  value-initialised
Init ==
    /\ a \in {Obj(ty, 0) : ty \in Types \ {"int8"}}
    /\ b \in {Obj(ty, 0) : ty \in Types \ {"int8"}}
    /\ last = Idle
    /\ t = NoObj
    /\ mem = [i \in 1 .. Cells |-> 0]

\* Ty b{v};  or  Ty b = v;  with v a prvalue of the plain type U
DeclareB ==
    \E ty \in Types \ {"int8"}, U \in PlainTypes, form \in InitForms,
       build \in NarrowingBuilds :
        \E v \in Values(U) :
            LET r == Initialise(ty, Obj(U, v), form, build)
            IN  /\ last = Idle
                /\ build = "accepts" => NarrowingPossible(ty, U)
                /\ IF ty \in AliasTypes THEN ConvRank(U, Rep[ty]) # Rank.none ELSE U = ty
                /\ last' = Stmt("declare", form, ty, "prvalue", Obj(U, v), r)
                /\ b' = IF r.outcome = "ok" THEN r.res ELSE b
                /\ a' = a
                /\ UNCHANGED <<t, mem>>

\* Ty a(b);  or  Ty a = b;  for an alias type Ty
ConstructA ==
    \E ty \in MatrixAliases, form \in InitForms, build \in NarrowingBuilds :
        LET r == Initialise(ty, b, form, build)
        IN  /\ last = Idle
            /\ build = "accepts" => NarrowingPossible(ty, b.ty)
            /\ last' = Stmt("construct", form, ty, "lvalue", NoObj, r)
            /\ a' = IF r.outcome = "ok" THEN r.res ELSE a
            /\ b' = b
            /\ UNCHANGED <<t, mem>>

\* a = b;  a += b;  ...  a >>= b;
Assign ==
    \E op \in AssignOps, build \in NarrowingBuilds :
        LET r == Binary(a, op, b, build)
        IN  /\ last = Idle
            /\ build = "accepts" => op = "=" /\ NarrowingPossible(a.ty, b.ty)
            /\ r.defined
            /\ last' = Stmt("assign", op, "void", "lvalue", NoObj, r)
            /\ a' = r.a
            /\ b' = b
            /\ UNCHANGED <<t, mem>>

\* a == b;  ...  a < b;  a && b;  a || b;
Compare ==
    \E op \in CmpOps \cup LogicOps :
        LET r == Binary(a, op, b, "rejects")
        IN  /\ last = Idle
            /\ r.defined
            /\ last' = Stmt("compare", op, "void", "lvalue", NoObj, r)
            /\ UNCHANGED <<a, b, t, mem>>

\* a + b;
Arith ==
    \E op \in ArithOps :
        LET r == Binary(a, op, b, "rejects")
        IN  /\ last = Idle
            /\ r.defined
            /\ last' = Stmt("arith", op, "void", "lvalue", NoObj, r)
            /\ UNCHANGED <<a, b, t, mem>>

\* f(a);  or  f(std::move(a));  with  void f(PT), f(PT&), f(const PT&), f(PT&&)
Pass ==
    \E PT \in Types \ {"int8"}, form \in ParamForms, cat \in ValueCategories,
       build \in NarrowingBuilds :
        LET r == PassArg(PT, form, cat, a, build)
        IN  /\ last = Idle
            /\ build = "accepts" => NarrowingPossible(PT, a.ty)
            /\ cat = "xvalue" => form = "rref"
            /\ last' = Stmt("pass", form, PT, cat, NoObj, r)
            /\ UNCHANGED <<a, b, t, mem>>

\* the statement ends; the next one can be taken
EndStatement ==
    /\ last # Idle
    /\ last' = Idle
    /\ UNCHANGED <<a, b, t, mem>>

Next ==
    DeclareB \/ ConstructA \/ Assign \/ Compare \/ Arith \/ Pass \/ EndStatement

Spec == Init /\ [][Next]_vars

---------------------------------------------------------------------------
(* The operator machine: one alias object a and a plain T object t, equal  *)
(* at the start, are taken through the same statements; b is the right     *)
(* operand of the statement and mem the array the pointers point into.     *)

\* one alias for each representation type
OpAliases == {"A", "M", "D", "C", "X", "P"}

\* a statement of the operator machine: what became of it on the alias
\* (outcome, sel, res) and on the plain T (tout, tres); self says that the
\* value of the expression is the object a itself
OpStmt(kind, op, arg, r, rt, self) ==
    [kind |-> kind, op |-> op, ty |-> r.res.ty, cat |-> "lvalue", src |-> arg,
     outcome |-> r.outcome, sel |-> r.sel, res |-> r.res,
     tout |-> rt.outcome, tres |-> rt.res, self |-> self]

\* N a; T t;  value-initialised: zero, the null pointer
InitOps ==
    /\ a \in {Obj(N, 0) : N \in OpAliases}
    /\ t = Obj(Rep[a.ty], 0)
    /\ b = NoObj
    /\ last = Idle
    /\ mem = [i \in 1 .. Cells |-> 0]

\* *a = v;  a[i] = v;  a->set(v);  (*a).set(v);  a.operator->();  and the
\* same statement on t.  A statement that goes through a pointer is taken
\* when the pointer designates an element of the array.
AccessStmt ==
    \E how \in AccessForms, i \in 0 .. 1, v \in Values("int") :
        LET r == Access(a, how, i, v, mem)
            rt == Access(t, how, i, v, mem)
        IN  /\ last = Idle
            /\ how = "[]" \/ i = 0
            /\ r.defined /\ rt.defined
            /\ last' = OpStmt("access", how, Obj("int", v), r, rt, FALSE)
            /\ b' = Obj("int", i)
            /\ mem' = r.mem
            /\ a' = IF StoreTarget(how) = "value" THEN Obj(a.ty, v) ELSE a
            /\ t' = t

\* ++a; --a; a++; a--;  and the same on t
Step ==
    \E form \in StepForms :
        LET r == Unary(a, form)
            rt == Unary(t, form)
        IN  /\ last = Idle
            /\ r.defined /\ rt.defined
            /\ last' = OpStmt("step", form, NoObj, r, rt, r.self)
            /\ a' = r.a
            /\ t' = IF r.outcome = "ok" THEN rt.a ELSE t
            /\ UNCHANGED <<b, mem>>
\* the types an alias is defined over, and the names it is given
DefinableTypes ==
    ArithTypes \cup PointerTypes \cup ClassTypes \cup FinalClassTypes \cup OtherTypes
NewNames == {"N1", "N2"}

\* STRONG_ALIAS(NAME, T);
Define ==
    \E NAME \in NewNames, T \in DefinableTypes :
        LET d == DefineAlias(T)
        IN  /\ last = Idle
            /\ last' = OpStmt("define", "STRONG_ALIAS", Obj(T, 0),
                              [outcome |-> d.outcome, sel |-> d.sel,
                               res |-> Obj(NAME, 0)],
                              [outcome |-> "ok", res |-> Obj(T, 0)], FALSE)
            /\ UNCHANGED <<a, b, t, mem>>
\* the right operands a statement is tried with: a plain T, a value of
\* a's own alias type, an int, the literal 0 and nullptr
Operands(N) ==
    {Obj(Rep[N], v) : v \in Values(Rep[N])}
    \cup {Obj(N, v) : v \in Values(Rep[N])}
    \cup {Obj("int", v) : v \in Values("int")}
    \cup {Obj("zero", 0), Obj("nullptr_t", 0)}

\* the operand as the plain T sees it: an alias operand by its value
Plain(arg) == Obj(Under(arg.ty), arg.val)

\* a op arg;  and  t op arg;  for an assignment or a comparison
Apply ==
    /\ last = Idle
    /\ \E op \in AssignOps \cup CmpOps, arg \in Operands(a.ty),
          build \in NarrowingBuilds :
         /\ build = "accepts" => op = "=" /\ NarrowingPossible(a.ty, arg.ty)
         /\ \E r \in {Binary(a, op, arg, build)},
               rt \in {Binary(t, op, Plain(arg), build)} :
              /\ r.defined /\ rt.defined
              /\ last' = OpStmt("apply", op, arg, r, rt, ReturnsSelf(r.sel, op))
              /\ a' = IF "this" \in Written(r.sel, op) THEN r.a ELSE a
              /\ t' = IF r.outcome = "ok" THEN rt.a ELSE t
              /\ b' = IF "arg" \in Written(r.sel, op) THEN r.a ELSE arg
              /\ mem' = mem

\* the compound assignments a chained statement goes on with
ChainOps == {"+=", "-=", "*="}

\* (a op1 x) op2 x;  and the same on t: the second operator acts on what
\* the first returns, which is a itself when the first returns *this
Chain ==
    /\ last = Idle
    /\ \E op1 \in AssignOps, op2 \in ChainOps, x \in Operands(a.ty),
          build \in NarrowingBuilds :
         /\ build = "accepts" => op1 = "=" /\ NarrowingPossible(a.ty, x.ty)
         /\ \E r1 \in {Binary(a, op1, x, build)},
               t1 \in {Binary(t, op1, Plain(x), build)} :
              \E r2 \in {Binary(r1.a, op2, x, build)},
                 t2 \in {Binary(t1.a, op2, Plain(x), build)} :
                LET ok == r1.outcome = "ok" /\ r2.outcome = "ok"
                    self == ReturnsSelf(r1.sel, op1)
                    r == IF r1.outcome = "ok" THEN r2 ELSE r1
                    rt == IF t1.outcome = "ok" THEN t2 ELSE t1
                IN  /\ r1.defined /\ r2.defined /\ t1.defined /\ t2.defined
                    /\ last' = OpStmt("chain", op1, x, r, rt,
                                      self /\ ReturnsSelf(r2.sel, op2))
                    /\ a' = IF ~ok THEN a ELSE IF self THEN r2.a ELSE r1.a
                    /\ t' = IF ok /\ rt.outcome = "ok" THEN t2.a ELSE t
                    /\ b' = x
                    /\ mem' = mem

\* N old = a++;  N old{a--};  and  T old = t++;  b is old
KeepOld ==
    \E form \in {f \in StepForms : Postfix(f)}, init \in InitForms :
        LET r == Unary(a, form)
            c == Initialise(a.ty, r.res, init, "rejects")
            rt == Unary(t, form)
            ct == Initialise(t.ty, rt.res, init, "rejects")
            ok == r.outcome = "ok" /\ c.outcome = "ok"
        IN  /\ last = Idle
            /\ r.defined /\ rt.defined
            /\ r.outcome = "ok" /\ rt.outcome = "ok"
            /\ last' = OpStmt("keep", form, r.res, c, ct, FALSE)
            /\ a' = IF ok THEN r.a ELSE a
            /\ t' = IF ok THEN rt.a ELSE t
            /\ b' = IF ok THEN c.res ELSE b
            /\ mem' = mem

\* the types of the objects that are initialised from a: a's own alias
\* type and the plain T
CopyTargets(N) == {N, Rep[N]}

\* N c{a};  N c = a;  T c{a};  T c = a;  and  T c{t};  T c = t;  b is c
Copy ==
    /\ last = Idle
    /\ \E ty \in CopyTargets(a.ty), init \in InitForms :
         \E c \in {Initialise(ty, a, init, "rejects")},
            ct \in {Initialise(Rep[a.ty], t, init, "rejects")} :
           /\ last' = OpStmt("copy", init, a, c, ct, FALSE)
           /\ a' = IF "arg" \in Written(c.sel, init) THEN Obj(a.ty, 0) ELSE a
           /\ b' = IF c.outcome = "ok" THEN c.res ELSE b
           /\ UNCHANGED <<t, mem>>

NextOps ==
    AccessStmt \/ Apply \/ Step \/ Chain \/ KeepOld \/ Copy \/ Define
    \/ EndStatement

SpecOps == InitOps /\ [][NextOps]_vars
\* The type machine: an alias a and an operand b of any type, on which the
\* type-level queries of the header are evaluated.
InitTraits ==
    /\ a \in {Obj(N, 0) : N \in AliasTypes}
    /\ b \in {Obj(ty, 0) : ty \in AliasTypes \cup ArithTypes \cup PointerTypes \cup ClassTypes}
    /\ t = NoObj
    /\ last = Idle
    /\ mem = [i \in 1 .. Cells |-> 0]

\* is_alias<Arg>, is_same_alias<Arg, Name>, is_different_alias<Arg, Name>
\* for Arg the type of b with some qualification and Name the identity of a
Classify ==
    \E cv \in CvQuals, ref \in RefQuals :
        /\ last = Idle
        /\ last' = OpStmt("classify", "is_alias", b,
                          [outcome |-> "ok",
                           sel |-> Classification(Qualified(b.ty, cv, ref), a.ty),
                           res |-> a],
                          [outcome |-> "ok", res |-> Qualified(b.ty, cv, ref)],
                          FALSE)
        /\ UNCHANGED <<a, b, t, mem>>

\* noexcept(N(b)) for an argument b of each value category, over a T that
\* is or is not nothrow-copy- and nothrow-move-constructible (a scalar T is
\* both)
NoexceptQuery ==
    \E cat \in ArgCategories, ncopy \in BOOLEAN, nmove \in BOOLEAN :
        LET c == Construct(a.ty, b, "direct", "accepts")
            r == [outcome |-> c.outcome, sel |-> c.sel,
                  res |-> Bool(NoexceptOf(c.sel, b.ty, cat, ncopy, nmove))]
            rt == [outcome |-> "ok",
                   res |-> Bool(IF cat = "lvalue" THEN ncopy ELSE nmove)]
        IN  /\ last = Idle
            /\ is_scalar_v(Rep[a.ty]) => ncopy /\ nmove
            /\ last' = [OpStmt("noexcept", "ctor", b, r, rt, FALSE)
                            EXCEPT !.cat = cat]
            /\ UNCHANGED <<a, b, t, mem>>
\* the enabling conditions of the three header variants, evaluated for the
\* type of b, as a value or an array, with some qualification, as the
\* operand of an alias of the identity of a
Variants ==
    /\ last = Idle
    /\ \E cv \in CvQuals, ref \in RefQuals, shape \in ArrayShapes :
         \E q \in {Qualified(Shaped(b.ty, shape), cv, ref)} :
           /\ last' = OpStmt("variants", "policy", b,
                             [outcome |-> "ok", sel |-> "none",
                              res |-> Obj("policy", Policy(q, a.ty))],
                             [outcome |-> "ok", res |-> q], FALSE)
           /\ UNCHANGED <<a, b, t, mem>>
NextTraits ==
    Classify \/ NoexceptQuery \/ Variants \/ EndStatement

SpecTraits == InitTraits /\ [][NextTraits]_vars
---------------------------------------------------------------------------
(* Properties                                                              *)

\* C1: with a scalar alias on the left and an alias of a different identity
\* on the right, each of ==, !=, >=, <=, >, <, && and || is rejected because
\* the alias's deleted operator is the one selected; the built-in operator
\* on the converted values is never reached.
C1_DeletedComparison ==
    (last.kind = "compare" /\ ScalarAlias(a.ty) /\ is_different_alias(b.ty, a.ty))
        => (last.outcome = "deleted" /\ last.sel = "alias_deleted")

\* A a; B b; a == b;  is rejected through the deleted operator
C1_Witness ==
    /\ last.kind = "compare" /\ last.op = "=="
    /\ a.ty = "A" /\ b.ty = "B"
    /\ last.outcome = "deleted"

\* C2: as stated, a + b is rejected whenever a and b are scalar aliases over
\* the same T with different identities.
C2_MixedArithmeticRejected ==
    (last.kind = "arith" /\ ScalarAlias(a.ty) /\ ScalarAlias(b.ty)
        /\ a.ty # b.ty /\ Rep[a.ty] = Rep[b.ty])
        => last.outcome # "ok"

\* C3: on a scalar alias each of the eleven assignment forms has no viable
\* overload when the right operand is an alias of a different identity, and
\* has one when it is a non-alias or the same alias; with the same alias or
\* a plain T on the right, every form T itself supports compiles.
C3_AssignmentConstraint ==
    (last.kind = "assign" /\ ScalarAlias(a.ty)) =>
        /\ is_different_alias(b.ty, a.ty) => last.outcome = "no_match"
        /\ ~is_different_alias(b.ty, a.ty) =>
               last.outcome # "no_match" /\ last.sel \in {"alias_member", "copy_assign"}
        /\ ((b.ty = a.ty \/ b.ty = Rep[a.ty])
               /\ BuiltinOK(last.op, Rep[a.ty], Rep[a.ty])) => last.outcome = "ok"

\* A a; B b; a += b;  has no viable operator+=
C3_Witness ==
    /\ last.kind = "assign" /\ last.op = "+="
    /\ a.ty = "A" /\ b.ty = "B"
    /\ last.outcome = "no_match"

C5_EveryConstructionRejected ==
    (last.kind = "construct" /\ is_different_alias(b.ty, last.ty))
        => last.outcome # "ok"

\* C5: the implicit constructions of an alias from an alias of a different
\* identity (copy-initialisation, passing to a parameter taken by value, by
\* reference to const or by rvalue reference) are rejected whatever the two
\* representations; direct-initialisation selects the explicit constructor
\* and compiles when the two representations are the same type.
C5_ImplicitConstructionRejected ==
    /\ (last.kind = "construct" /\ last.op = "copy" /\ is_different_alias(b.ty, last.ty))
          => (last.outcome = "no_match" /\ last.sel = "none")
    /\ (last.kind = "pass" /\ last.op \in {"val", "clref", "rref"}
          /\ is_alias(a.ty) /\ is_different_alias(last.ty, a.ty))
          => last.outcome = "no_match"
    /\ (last.kind = "construct" /\ last.op = "direct" /\ is_different_alias(b.ty, last.ty))
          => /\ last.sel = "ctor_variadic"
             /\ Rep[b.ty] = Rep[last.ty] => last.outcome = "ok"

\* A b; B a = b;  is rejected
C5_Witness ==
    /\ last.kind = "construct" /\ last.op = "copy"
    /\ b.ty = "A" /\ last.ty = "B"
    /\ last.outcome = "no_match"

\* C6: direct-initialisation of an alias from a value of any alias over the
\* same T, its own identity or another, compiles and the new object holds
\* the source's value; between scalar aliases over different T it holds the
\* converted value whenever the build accepts the conversion.
C6_ExplicitConstruction ==
    (last.kind = "construct" /\ last.op = "direct" /\ is_alias(b.ty)) =>
        /\ Rep[b.ty] = Rep[last.ty] =>
               (last.outcome = "ok" /\ a = Obj(last.ty, b.val) /\ last.res = a)
        /\ (last.outcome = "ok" /\ ScalarAlias(b.ty)) =>
               a = Obj(last.ty, ConvertValue(Rep[b.ty], Rep[last.ty], b.val))

\* A b{1}; B a(b);  compiles and a holds 1
C6_Witness ==
    /\ last.kind = "construct" /\ last.op = "direct"
    /\ b = Obj("A", 1) /\ last.ty = "B"
    /\ last.outcome = "ok" /\ a = Obj("B", 1)

\* C7, as stated: the constructors are explicit, so an alias is never
\* created implicitly from a plain value: A x = v and passing v to a
\* parameter of type A are rejected.
C7_NoImplicitConstruction ==
    /\ (last.kind = "declare" /\ last.op = "copy" /\ is_alias(last.ty))
          => last.outcome # "ok"
    /\ (last.kind = "pass" /\ last.op = "val" /\ is_alias(last.ty) /\ ~is_alias(a.ty))
          => last.outcome # "ok"

\* C7: only the constructor from aliases is explicit; the constructor from
\* one non-alias argument is a converting constructor, so for a plain v of
\* the alias's type T both  A x = v  and passing v to a parameter A compile
\* and the alias holds v, while an alias of a different identity is never
\* converted implicitly.
C7_ConvertingConstructor ==
    /\ (last.kind = "declare" /\ last.op = "copy" /\ is_alias(last.ty)
          /\ last.src.ty = Rep[last.ty])
          => (last.outcome = "ok" /\ last.sel = "ctor_single"
              /\ b = Obj(last.ty, last.src.val))
    /\ (last.kind = "pass" /\ last.op \in {"val", "clref"} /\ is_alias(last.ty)
          /\ a.ty = Rep[last.ty])
          => (last.outcome = "ok" /\ last.res = Obj(last.ty, a.val))
    /\ (last.kind = "construct" /\ last.op = "copy" /\ is_different_alias(b.ty, last.ty))
          => last.sel = "none"

\* A b = 1;  compiles and b holds 1
C7_Witness ==
    /\ last.kind = "declare" /\ last.op = "copy"
    /\ last.ty = "A" /\ last.src = Obj("int", 1)
    /\ last.outcome = "ok" /\ b = Obj("A", 1)

\* C8: as stated, on a class alias every assignment, comparison and logical
\* operator that T supports compiles with a right operand of the same alias
\* or of type T, and is rejected with a right operand that is an alias of a
\* different identity.
C8_ClassAliasOperators ==
    (last.kind \in {"assign", "compare"} /\ ClassAlias(a.ty)
        /\ last.op \in SupportedOps(Rep[a.ty])) =>
        /\ (b.ty = a.ty \/ b.ty = Rep[a.ty]) => last.outcome = "ok"
        /\ is_different_alias(b.ty, a.ty) => last.outcome # "ok"

\* C9: an alias direct-initialised from a plain value v reads back, through
\* its conversion to T (scalar body) or its T base sub-object (class body),
\* the value v converted to T; when the conversion of v to T is not a
\* narrowing one the value read back compares equal to v itself.
C9_RoundTrip ==
    (last.kind = "declare" /\ last.op = "direct" /\ is_alias(last.ty)
        /\ last.outcome = "ok") =>
        LET T == Rep[last.ty]
            v == last.src
            back == ToPlain(T, b)
        IN  /\ b.ty = last.ty
            /\ back.outcome = "ok" /\ back.res.ty = T
            /\ IF T \in ArithTypes
               THEN /\ back.res.val = ConvertValue(v.ty, T, v.val)
                    /\ ~Narrowing(v.ty, T) =>
                           BuiltinBinary("==", T, back.res.val, v.ty, v.val) = Bool(TRUE)
               ELSE /\ v.ty = T
                    /\ back.res.val = v.val

\* A b{ std::int8_t{1} };  reads back as the int 1
C9_Witness ==
    /\ last.kind = "declare" /\ last.op = "direct"
    /\ last.ty = "A" /\ last.src = Obj("int8", 1)
    /\ last.outcome = "ok"
    /\ ToPlain("int", b).res = Obj("int", 1)

\* C10: a comparison between two values of one scalar alias, or between a
\* scalar alias and a plain T, is the built-in operator of T applied to the
\* two held values; a + b on two values of one scalar alias is the plain T
\* sum of the held values, so that (m + n) == k compares that sum with the
\* value k holds.
C10_SameAliasOperators ==
    /\ (last.kind = "compare" /\ last.op \in CmpOps
          /\ \/ ScalarAlias(a.ty) /\ (b.ty = a.ty \/ b.ty = Rep[a.ty])
             \/ ScalarAlias(b.ty) /\ a.ty = Rep[b.ty])
          => /\ last.outcome = "ok" /\ last.sel = "builtin"
             /\ last.res = Bool(CmpValue(last.op, a.val, b.val))
    /\ (last.kind = "arith" /\ ScalarAlias(a.ty) /\ b.ty = a.ty)
          => /\ last.outcome = "ok" /\ last.sel = "builtin"
             /\ last.res = Obj(Rep[a.ty], a.val + b.val)

\* M a{0.5}; M b{0.5}; a == b;  is true
C10_Witness ==
    /\ last.kind = "compare" /\ last.op = "=="
    /\ a = Obj("M", 1) /\ b = Obj("M", 1)
    /\ last.outcome = "ok" /\ last.res = Bool(TRUE)

\* C11: on a scalar alias  *a  compiles exactly when T is a pointer, and
\* a->  (written a->m or a.operator->()) compiles exactly when T is a
\* pointer to a class: both are rejected over int and double, and over int*
\* *c  compiles while  c.operator->()  is rejected.
C11_DerefAvailability ==
    (last.kind = "access" /\ ScalarAlias(a.ty)) =>
        /\ last.op = "*" =>
               ((last.outcome = "ok") <=> is_pointer_v(Rep[a.ty]))
        /\ last.op \in {"->", ".operator->()"} =>
               ((last.outcome = "ok") <=>
                    (is_pointer_v(Rep[a.ty]) /\ is_class_v(Pointee[Rep[a.ty]])))

\* D c{&x[0]}; c.operator->();  is rejected
C11_Witness ==
    /\ last.kind = "access" /\ last.op = ".operator->()"
    /\ a = Obj("D", 1)
    /\ last.outcome = "no_match"

\* C12: a statement that writes v through  *a,  a->  or  (*a).  changes
\* exactly the element the held pointer designates, to v, and leaves the
\* held pointer as it was; the plain pointer t does the same, and on a
\* pointer to a class  a->set(v)  and  (*a).set(v)  leave the same array.
C12_DerefDenotesPointee ==
    [][(last = Idle /\ last'.kind = "access" /\ last'.outcome = "ok"
            /\ last'.op \in {"*", "->", "(*)."})
        => /\ a' = a
           /\ a.val \in 1 .. Cells
           /\ mem' = [mem EXCEPT ![a.val] = last'.src.val]
           /\ last'.tout = "ok"
           /\ mem' = Access(t, last'.op, 0, last'.src.val, mem).mem
           /\ is_class_v(Pointee[Rep[a.ty]]) =>
                  /\ Access(a, "->", 0, last'.src.val, mem).outcome = "ok"
                  /\ Access(a, "->", 0, last'.src.val, mem).mem
                         = Access(a, "(*).", 0, last'.src.val, mem).mem]_vars

\* D p{&x[1]}; *p = 1;  sets x[1] and nothing else
C12_Witness ==
    /\ last.kind = "access" /\ last.op = "*"
    /\ a = Obj("D", 2)
    /\ last.outcome = "ok" /\ last.src.val = 1
    /\ mem[2] = 1 /\ mem[1] = 0
\* C13: which body an alias gets is decided by T alone and is at most one:
\* a scalar T gets the composition body, a class T that is not final the
\* inheritance body, never both; over a final class (and over any T that is
\* neither) the definition of the alias is rejected.
C13_CategorySelection ==
    last.kind = "define" =>
        LET T == last.src.ty
        IN  /\ last.sel # "ambiguous"
            /\ last.sel = Body(T)
            /\ is_scalar_v(T) => last.outcome = "ok" /\ last.sel = "scalar"
            /\ (is_class_v(T) /\ ~is_final_v(T)) =>
                   last.outcome = "ok" /\ last.sel = "class"
            /\ is_final_v(T) =>
                   last.outcome = "incomplete_type" /\ last.sel = "none"
            /\ (last.outcome = "ok") <=> (last.sel \in {"scalar", "class"})

\* STRONG_ALIAS(N1, F);  over a final class F is rejected
C13_Witness ==
    /\ last.kind = "define" /\ last.src.ty = "F"
    /\ last.outcome = "incomplete_type"
\* C14: an operand type, whatever its const, volatile and reference
\* qualification, is relative to an identity Name exactly one of
\* not-an-alias, same-alias and different-alias; it is same-alias exactly
\* when it carries the marker of Name, not-an-alias exactly when it carries
\* no marker, and two aliases over one representation type are different.
C14_Classification ==
    last.kind = "classify" =>
        LET Arg == last.src.ty
            Name == a.ty
        IN  /\ last.sel \in {"not_an_alias", "same_alias", "different_alias"}
            /\ (last.sel = "not_an_alias") <=> (Arg \notin AliasTypes)
            /\ (last.sel = "same_alias") <=> (Arg = Name)
            /\ (Arg \in AliasTypes /\ Arg # Name) => last.sel = "different_alias"

\* const B& relative to A, both over int: a different alias
C14_Witness ==
    /\ last.kind = "classify"
    /\ a.ty = "A" /\ last.src.ty = "B" /\ Rep["A"] = Rep["B"]
    /\ last.tres.cv = "const" /\ last.tres.ref = "&"
    /\ last.sel = "different_alias"
\* C15: when T does not accept an increment, decrement, assignment form or
\* dereference for the given operand, the alias has no viable overload for
\* it: the expression on the alias finds no match.
C15_UnsupportedNotOffered ==
    (/\ last.kind \in {"apply", "step", "access"}
     /\ last.kind = "apply" => last.op \in AssignOps
     /\ last.kind = "access" => last.op \in {"*", "->"}
     /\ is_alias(a.ty)
     /\ last.tout # "ok")
        => last.outcome = "no_match"

\* C16: each of ++a, --a, a++, a-- is usable on an alias, of either body,
\* exactly when the same form is usable on T, and then steps the value the
\* alias holds as it steps a T.
C16_StepAvailability ==
    (last.kind = "step" /\ is_alias(a.ty)) =>
        /\ (last.outcome = "ok") <=> (last.tout = "ok")
        /\ last.outcome = "ok" => a.val = t.val

\* C17: a scalar alias accepts an operator expression with a non-alias
\* operand (an assignment, a comparison, a step, a subscript, a
\* dereference) exactly when T accepts the same expression.
C17_AcceptsExactlyAsT ==
    (/\ last.kind \in {"apply", "step", "access"}
     /\ ScalarAlias(a.ty)
     /\ last.kind = "apply" => ~is_alias(last.src.ty)
     /\ last.kind = "access" => last.op # ".operator->()")
        => ((last.outcome = "ok") <=> (last.tout = "ok"))

\* C18: a scalar alias a and a plain T variable t that start equal and are
\* taken through the same increments, decrements, assignments and compound
\* assignments (an alias operand reaching t by its underlying value) stay
\* equal: after every step the T read from a by its conversion is t.
C18_ScalarRefinement ==
    (ScalarAlias(a.ty) /\ t # NoObj) =>
        /\ ToPlain(Rep[a.ty], a).outcome = "ok"
        /\ ToPlain(Rep[a.ty], a).res = t

\* M a; double t; ... a += M{1.0}; t += 1.0;  both at the largest value
C18_Witness ==
    /\ last.kind = "apply" /\ last.op = "+=" /\ last.outcome = "ok"
    /\ a.ty = "M" /\ b = Obj("M", 2)
    /\ a.val = 2 * MaxInt /\ t = Obj("double", 2 * MaxInt)

\* C19: a construction of an alias that compiles is declared noexcept
\* whenever the construction of T it stands for cannot throw: T's copy for
\* an lvalue argument, T's move for an rvalue argument; and the copy and
\* move of an alias are noexcept exactly when T's are.
C19_NoexceptMirrorsT ==
    (last.kind = "noexcept" /\ last.outcome = "ok") =>
        /\ last.tres.val = 1 => last.res.val = 1
        /\ last.sel = "copy_ctor" => last.res = last.tres

\* C20: on an alias a of type A, ++a, --a and every assignment form that
\* compiles yield a itself, so that (a op= x) op= x changes a twice, as it
\* changes a plain T; a++ and a-- yield a value of type A holding what a
\* held before, a holding the stepped value, so that  A old = a++;  keeps
\* the old value as  T old = t++;  does.
C20_SelfReferenceAndOldValue ==
    (is_alias(a.ty) /\ last.outcome = "ok") =>
        /\ (last.kind = "apply" /\ last.op \in AssignOps) => last.self /\ last.res = a
        /\ (last.kind = "step" /\ ~Postfix(last.op)) => last.self /\ last.res = a
        /\ last.kind = "chain" => last.self /\ a.val = t.val
        /\ (last.kind = "step" /\ Postfix(last.op)) =>
               /\ last.res.ty = a.ty
               /\ last.res.val = last.tres.val
               /\ a.val = t.val
        /\ last.kind = "keep" => b.ty = a.ty /\ b.val = last.src.val

\* C21: a scalar alias A over T is direct-initialised,  A a{v},  from every
\* non-alias value v whose type converts implicitly to T, narrower or wider,
\* integer or floating, and then holds v converted to T.
C21_DirectInitFromConvertible ==
    (/\ last.kind = "declare" /\ last.op = "direct"
     /\ ScalarAlias(last.ty)
     /\ ~is_alias(last.src.ty)
     /\ ConvRank(last.src.ty, Rep[last.ty]) # Rank.none)
        => /\ last.outcome = "ok"
           /\ b = Obj(last.ty, ConvertValue(last.src.ty, Rep[last.ty], last.src.val))

C23_ReadOnlyFrame ==
    [][ScalarAlias(a.ty) =>
         /\ (last'.kind = "apply" /\ last'.op \in CmpOps)
              => a' = a /\ b' = last'.src /\ mem' = mem
         /\ (last'.kind = "apply" /\ last'.op \in AssignOps)
              => b' = last'.src /\ mem' = mem /\ a'.ty = a.ty
         /\ last'.kind = "access" => a' = a
         /\ last'.kind = "copy" => a' = a /\ last'.src = a /\ mem' = mem]_vars

\* a += x with x of a's own alias type was accepted and has changed a from
\* 0 to x's value 1, and x still holds 1
C23_Witness ==
    /\ last.kind = "apply" /\ last.op = "+="
    /\ last.outcome = "ok" /\ last.sel = "alias_member"
    /\ ScalarAlias(a.ty)
    /\ last.src = Obj(a.ty, 1)
    /\ a = Obj(a.ty, 1)
    /\ b = Obj(a.ty, 1)
    /\ t.val = 1

====
